---- MODULE Spec2Model ----
(***************************************************************************)
(* Model of spotify-organizer: the tempo partition and classifier of       *)
(* tempo_organizer.py, the playlist operations of spotipy_client.py and    *)
(* the driver main().                                                      *)
(*                                                                         *)
(* Tempos.  categorize_track divides the tempo by two with Python's true   *)
(* division, so an effective tempo may be a half-integer (129 / 2 = 64.5). *)
(* The model keeps every effective tempo exactly, as twice its value       *)
(* ("x2" in a name): 64.5 is 129, 64 is 128.  Energies and the energy      *)
(* threshold are kept in hundredths (0.6 is 60).                           *)
(***************************************************************************)
EXTENDS Integers, Sequences, FiniteSets, TLC

VARIABLES
    cfg,        \* the TempoOrganizer's start_tempo, end_tempo, increment, max_tempo
    playlists,  \* TempoOrganizer.playlists: the list of TempoPlaylist
    pc,         \* position of the driver
    err,        \* the exception that ended the last operation, or "none"
    last,       \* the operation just executed: its arguments and the state before it
    ncalls,     \* number of categorize_track calls made by the organizer driver
    audio,      \* the service: the audio features it reports per track id
    remote,     \* the service: the current user's playlist library, in order
    created,    \* number of playlists the service has created so far
    calls,      \* log of the mutating remote calls issued, in order
    todo,       \* main: source playlists still to be read
    feats,      \* main: audio features of the current source playlist, still to classify
    idx,        \* main: index of the tempo playlist the reconcile loop is at
    pass,       \* which run of the reconcile loop this is
    snap        \* library and call log at the start of this run of the loop

vars == <<cfg, playlists, pc, err, last, ncalls, audio, remote, created, calls,
          todo, feats, idx, pass, snap>>

remoteVars == <<audio, remote, created, calls>>
mainVars   == <<todo, feats, idx, pass, snap>>

----------------------------------------------------------------------------
(* Bounds of the organizer specification *)

MaxCfgTempo == 5    \* configurations have start, end, max_tempo <= MaxCfgTempo
MaxIncrement == 3   \* increments range over -1 .. MaxIncrement
MaxCalls == 2       \* categorize_track calls per organizer

(* Program constants *)

EnergyThreashold == 60     \* energy_threashold = 0.6, in hundredths
DefaultMaxTempo == 300     \* max_tempo = 300
MainStartTempo == 50       \* main: TempoOrganizer(start_tempo=50, ...)
MainEndTempo == 155        \* main: end_tempo=155
MainIncrement == 15        \* main: increment=15

----------------------------------------------------------------------------
(* tempo_organizer.py: TempoPlaylist *)

\* TempoPlaylist.__post_init__: the default name is derived from the bounds
DefaultName(low_tempo, high_tempo) ==
    "auto-playlist-by-tempo [" \o ToString(low_tempo) \o ", "
        \o ToString(high_tempo) \o "]"

\* TempoPlaylist(low_tempo, high_tempo): name defaulted, id "", no tracks
TempoPlaylist(low_tempo, high_tempo) ==
    [low_tempo |-> low_tempo, high_tempo |-> high_tempo,
     name |-> DefaultName(low_tempo, high_tempo), id |-> "", track_ids |-> {}]

\* TempoPlaylist.is_tempo_in_range, on a doubled tempo
is_tempo_in_range(playlist, tempo_x2) ==
    (2 * playlist.low_tempo <= tempo_x2) /\ (tempo_x2 <= 2 * playlist.high_tempo)

\* TempoPlaylist.add_track
add_track(playlist, track_id) ==
    [playlist EXCEPT !.track_ids = @ \cup {track_id}]

----------------------------------------------------------------------------
(* tempo_organizer.py: TempoOrganizer *)

\* Python's range(start, stop, step) for step # 0, as a sequence
RECURSIVE PyRange(_, _, _)
PyRange(start, stop, step) ==
    IF (step > 0 /\ start < stop) \/ (step < 0 /\ start > stop)
    THEN <<start>> \o PyRange(start + step, stop, step)
    ELSE <<>>

\* the range appended for one value of the loop variable
MidPlaylist(tempo, increment) == TempoPlaylist(tempo, tempo + increment - 1)

\* faulty variant of LastPlaylist: the catch-all range starts one above end_tempo
LastPlaylistAboveEnd(c) == TempoPlaylist(c.end_tempo + 1, c.max_tempo - 1)

\* the first and the last range
FirstPlaylist(c) == TempoPlaylist(0, c.start_tempo - 1)
LastPlaylist(c) == TempoPlaylist(c.end_tempo, c.max_tempo - 1)

\* TempoOrganizer.__post_init__ for increment # 0: the list of ranges
BuildPlaylists(c) ==
    LET steps == PyRange(c.start_tempo, c.end_tempo, c.increment)
    IN  <<FirstPlaylist(c)>>
        \o [i \in 1..Len(steps) |-> MidPlaylist(steps[i], c.increment)]
        \o <<LastPlaylist(c)>>

\* range() raises ValueError when its step is zero
PostInitRaises(c) == c.increment = 0

\* categorize_track, lines 52-53: the effective tempo, doubled
EffectiveTempoX2(tempo, energy) ==
    IF energy < EnergyThreashold THEN tempo ELSE 2 * tempo

\* faulty variant of TempoTooHigh: a tempo equal to max_tempo passes
TempoAboveMax(tempo_x2, max_tempo) == tempo_x2 > 2 * max_tempo

\* categorize_track, line 55: the guard of the raise
TempoTooHigh(tempo_x2, max_tempo) == tempo_x2 >= 2 * max_tempo

\* categorize_track, lines 60-62: every playlist whose range holds the tempo
\* gets the track (the loop has no break)
AddToMatching(pls, track_id, tempo_x2) ==
    [i \in 1..Len(pls) |->
        IF is_tempo_in_range(pls[i], tempo_x2)
        THEN add_track(pls[i], track_id) ELSE pls[i]]

NoCall == [op |-> "none"]

\* categorize_track(track_id, tempo, energy): raises before touching any
\* playlist, otherwise adds the track to the matching playlists
Categorize(track_id, tempo, energy) ==
    LET tempo_x2 == EffectiveTempoX2(tempo, energy)
    IN  /\ last' = [op |-> "categorize_track", track_id |-> track_id,
                    tempo |-> tempo, energy |-> energy, before |-> playlists]
        /\ IF TempoTooHigh(tempo_x2, cfg.max_tempo)
           THEN /\ err' = "ValueError"
                /\ playlists' = playlists
           ELSE /\ err' = "none"
                /\ playlists' = AddToMatching(playlists, track_id, tempo_x2)

\* TempoOrganizer(...): the dataclass constructor runs __post_init__.  A zero
\* increment makes range() raise after the first append; nothing catches it.
post_init ==
    /\ pc = "new"
    /\ IF PostInitRaises(cfg)
       THEN /\ playlists' = <<FirstPlaylist(cfg)>>
            /\ err' = "ValueError"
            /\ pc' = "failed"
       ELSE /\ playlists' = BuildPlaylists(cfg)
            /\ err' = "none"
            /\ pc' = "constructed"
    /\ UNCHANGED <<cfg, last, ncalls>>
    /\ UNCHANGED remoteVars
    /\ UNCHANGED mainVars

----------------------------------------------------------------------------
(* The organizer on its own: any configuration, then categorize_track calls *)
(* with any track, integer tempo and energy; a caller that catches the     *)
(* ValueError may go on calling.                                           *)

Tracks == {"t1", "t2"}
Energies == {59, 60}

Configs ==
    [start_tempo : 0..MaxCfgTempo, end_tempo : 0..MaxCfgTempo,
     increment : (-1)..MaxIncrement, max_tempo : 1..MaxCfgTempo]

InitOrganizer ==
    /\ cfg \in Configs
    /\ playlists = <<>>
    /\ pc = "new"
    /\ err = "none"
    /\ last = NoCall
    /\ ncalls = 0
    /\ audio = <<>>
    /\ remote = <<>>
    /\ created = 0
    /\ calls = <<>>
    /\ todo = <<>>
    /\ feats = <<>>
    /\ idx = 0
    /\ pass = 0
    /\ snap = [remote |-> <<>>, calls |-> <<>>]

categorize_track ==
    /\ pc = "constructed"
    /\ ncalls < MaxCalls
    /\ \E track_id \in Tracks, tempo \in 0..(2 * cfg.max_tempo + 1), energy \in Energies :
          Categorize(track_id, tempo, energy)
    /\ ncalls' = ncalls + 1
    /\ UNCHANGED <<cfg, pc>>
    /\ UNCHANGED remoteVars
    /\ UNCHANGED mainVars

NextOrganizer == post_init \/ categorize_track

SpecOrganizer == InitOrganizer /\ [][NextOrganizer]_vars

----------------------------------------------------------------------------
(* Properties of the partition and the classifier *)

ValidConfig(c) ==
    /\ 0 <= c.start_tempo
    /\ c.start_tempo < c.end_tempo
    /\ c.end_tempo <= c.max_tempo
    /\ c.increment > 0

\* a valid configuration whose first and last range are not empty
ProperConfig(c) ==
    /\ ValidConfig(c)
    /\ 0 < c.start_tempo
    /\ c.end_tempo < c.max_tempo

ExactMultiple(c) == (c.end_tempo - c.start_tempo) % c.increment = 0

Categorized == last.op = "categorize_track"

\* the ranges of a list of playlists that hold the track
RangesHolding(pls, track_id) == {i \in 1..Len(pls) : track_id \in pls[i].track_ids}

\* the call returned normally and its track was in no range before it
ReturnedForFreshTrack ==
    /\ Categorized
    /\ err = "none"
    /\ RangesHolding(last.before, last.track_id) = {}

\* the effective tempo of the last call lies within playlist i (doubled compare)
LastTempoWithin(i) ==
    LET e2 == IF last.energy < 60 THEN last.tempo ELSE 2 * last.tempo
    IN  2 * playlists[i].low_tempo <= e2 /\ e2 <= 2 * playlists[i].high_tempo

\* C1: with (end - start) a multiple of increment, a categorize_track call that
\* returns has put its track into exactly one range, halved tempo or not.
C1_ExactlyOneRange ==
    (ReturnedForFreshTrack /\ ProperConfig(cfg) /\ ExactMultiple(cfg))
        => Cardinality(RangesHolding(playlists, last.track_id)) = 1

\* C2: for a valid configuration the low_tempo values strictly increase, the
\* first range starts at 0 and the last range ends at max_tempo - 1.
C2_OrderedPartition ==
    (pc = "constructed" /\ ValidConfig(cfg))
        => /\ \A i \in 1..(Len(playlists) - 1) :
                 playlists[i].low_tempo < playlists[i + 1].low_tempo
           /\ playlists[1].low_tempo = 0
           /\ playlists[Len(playlists)].high_tempo = cfg.max_tempo - 1

\* C3: for a valid configuration, dividing increment or not, every integer
\* tempo in [0, max_tempo) lies within at least one range.
C3_NoGap ==
    (pc = "constructed" /\ ValidConfig(cfg))
        => \A t \in 0..(cfg.max_tempo - 1) :
              \E i \in 1..Len(playlists) :
                  playlists[i].low_tempo <= t /\ t <= playlists[i].high_tempo

C3_Witness ==
    /\ pc = "constructed"
    /\ ValidConfig(cfg)
    /\ ~ExactMultiple(cfg)
    /\ cfg.end_tempo < cfg.max_tempo

\* C4: categorize_track raises exactly when the effective tempo is at least
\* max_tempo, and a call that raised left every playlist as it was.
C4_RaisesIffTooHigh ==
    Categorized
        => /\ (err = "ValueError") <=>
                 (IF last.energy < 60 THEN last.tempo >= 2 * cfg.max_tempo
                                      ELSE last.tempo >= cfg.max_tempo)
           /\ (err = "ValueError") => playlists = last.before

C4_Witness ==
    /\ Categorized
    /\ err = "ValueError"
    /\ last.energy < 60
    /\ \E i \in 1..Len(playlists) : playlists[i].track_ids # {}

\* C5: a configuration with start >= end or increment <= 0 ends construction
\* in an error, with no partition and no remote call.
C5_ConfigurationError ==
    (pc # "new" /\ (cfg.start_tempo >= cfg.end_tempo \/ cfg.increment <= 0))
        => (pc = "failed" /\ err = "ValueError" /\ calls = <<>>)

\* C9: a track whose effective tempo lies in several overlapping ranges is
\* added to the first of them only.
C9_FirstMatchOnly ==
    (ReturnedForFreshTrack /\ ProperConfig(cfg) /\ ~ExactMultiple(cfg))
        => \A i \in RangesHolding(playlists, last.track_id) :
              \A j \in 1..(i - 1) : ~LastTempoWithin(j)

----------------------------------------------------------------------------
(* spotipy_client.py: SpotipyClient, over the service's state.              *)
(* remote is the current user's library: playlists owned or followed, each *)
(* [id, name, owner, items] with items the sequence of item ids.           *)

CurrentUser == "me"
Episodes == {"e1"}

\* an item of type "track" (the others are episodes)
IsTrack(item) == item \notin Episodes

\* the names and ids of a sequence of playlists
IdsOf(pls) == [i \in 1..Len(pls) |-> pls[i].id]
RangeOf(seq) == {seq[i] : i \in 1..Len(seq)}

\* get_current_user_playlists(owned_playlist_only, excluded_playlists)
get_current_user_playlists(lib, owned_playlist_only, excluded_playlists) ==
    LET kept(playlist) ==
            /\ (excluded_playlists # {}) =>
                  (playlist.id \notin excluded_playlists
                   /\ playlist.name \notin excluded_playlists)
            /\ owned_playlist_only => playlist.owner = CurrentUser
    IN  SelectSeq(lib, kept)

\* the playlist of the library with the given id
PlaylistById(lib, playlist_id) ==
    lib[CHOOSE i \in 1..Len(lib) : lib[i].id = playlist_id]

\* get_tracks_from_playlist(playlist_id): the ids of the items that are tracks
get_tracks_from_playlist(lib, playlist_id) ==
    SelectSeq(PlaylistById(lib, playlist_id).items, IsTrack)

\* Python's round() of a tempo given in halves: ties go to the even integer
PyRound(tempo_x2) ==
    LET q == tempo_x2 \div 2
    IN  IF tempo_x2 % 2 = 0 THEN q
        ELSE IF q % 2 = 0 THEN q ELSE q + 1

NoFeatures == [tempo_x2 |-> -1, energy |-> -1]

\* get_several_tracks_audio_features(track_ids): falsy entries are skipped,
\* the tempo is rounded (the lists here stay below one batch of 100)
get_several_tracks_audio_features(features, track_ids) ==
    LET known == SelectSeq(track_ids, LAMBDA t : features[t] # NoFeatures)
    IN  [i \in 1..Len(known) |->
            [id |-> known[i],
             tempo |-> PyRound(features[known[i]].tempo_x2),
             energy |-> features[known[i]].energy]]

\* faulty variant of ExistingByName: the name is compared with the ids
ExistingById(existing_playlists, playlist_name) ==
    SelectSeq(existing_playlists, LAMBDA p : p.id = playlist_name)

\* create_playlist, lines 110-114: the owned playlists with the wanted name
ExistingByName(existing_playlists, playlist_name) ==
    SelectSeq(existing_playlists, LAMBDA p : p.name = playlist_name)

\* the playlist user_playlist_create makes: a fresh id, owned, no items
NewPlaylist(n, playlist_name) ==
    [id |-> "new" \o ToString(n), name |-> playlist_name,
     owner |-> CurrentUser, items |-> <<>>]

\* faulty variant of TrackIdsToAdd: nothing is filtered out
AllTrackIds(track_ids, track_ids_in_playlist) == track_ids

\* add_tracks_to_playlist, lines 228-230: the requested ids not yet present
TrackIdsToAdd(track_ids, track_ids_in_playlist) ==
    track_ids \ track_ids_in_playlist

\* the orders in which a set of ids may be listed
OrdersOf(S) ==
    {seq \in [1..Cardinality(S) -> S] : RangeOf(seq) = S}

\* faulty variant of EmptyPlaylists: only the user's own playlists are swept
OwnedEmptyPlaylists(lib) ==
    SelectSeq(get_current_user_playlists(lib, TRUE, {}),
              LAMBDA p : Len(p.items) = 0)

\* unfollow_empty_playlists, lines 127-131: no owner filter is requested
EmptyPlaylists(lib) ==
    SelectSeq(get_current_user_playlists(lib, FALSE, {}),
              LAMBDA p : Len(p.items) = 0)

\* create_playlist(playlist_name): the existing playlist, or a new one
create_playlist(playlist_name) ==
    LET existing == ExistingByName(get_current_user_playlists(remote, TRUE, {}),
                                   playlist_name)
        new == NewPlaylist(created + 1, playlist_name)
    IN  IF existing # <<>>
        THEN /\ playlists' = [playlists EXCEPT ![idx].id = existing[1].id]
             /\ UNCHANGED <<remote, created, calls>>
        ELSE /\ playlists' = [playlists EXCEPT ![idx].id = new.id]
             /\ remote' = <<new>> \o remote
             /\ created' = created + 1
             /\ calls' = Append(calls, [op |-> "user_playlist_create",
                                        name |-> playlist_name, id |-> new.id,
                                        items |-> <<>>])

\* add_tracks_to_playlist(playlist_id, track_ids)
add_tracks_to_playlist(playlist_id, track_ids) ==
    LET track_ids_in_playlist == RangeOf(get_tracks_from_playlist(remote, playlist_id))
        to_add == TrackIdsToAdd(track_ids, track_ids_in_playlist)
    IN  IF to_add = {}
        THEN UNCHANGED <<remote, calls>>
        ELSE \E track_ids_to_add \in OrdersOf(to_add) :
                /\ remote' = [i \in 1..Len(remote) |->
                                 IF remote[i].id = playlist_id
                                 THEN [remote[i] EXCEPT !.items = @ \o track_ids_to_add]
                                 ELSE remote[i]]
                /\ calls' = Append(calls, [op |-> "playlist_add_items", name |-> "",
                                           id |-> playlist_id,
                                           items |-> track_ids_to_add])

\* unfollow_empty_playlists(): one user_playlist_unfollow per empty playlist
unfollow_empty_playlists ==
    LET empty_playlists == EmptyPlaylists(remote)
    IN  /\ remote' = SelectSeq(remote,
                         LAMBDA p : p.id \notin RangeOf(IdsOf(empty_playlists)))
        /\ calls' = calls \o [i \in 1..Len(empty_playlists) |->
                                 [op |-> "user_playlist_unfollow",
                                  name |-> empty_playlists[i].name,
                                  id |-> empty_playlists[i].id, items |-> <<>>]]

----------------------------------------------------------------------------
(* tempo_organizer.py: main(), one action per step of the driver *)

MainConfig ==
    [start_tempo |-> MainStartTempo, end_tempo |-> MainEndTempo,
     increment |-> MainIncrement, max_tempo |-> DefaultMaxTempo]

Read == [op |-> "read"]

\* lines 70-73: the user's own playlists, the tempo playlists' names excluded
main_list ==
    /\ pc = "constructed"
    /\ todo' = IdsOf(get_current_user_playlists(
                    remote, TRUE, {playlists[i].name : i \in 1..Len(playlists)}))
    /\ pc' = "classify"
    /\ last' = Read
    /\ UNCHANGED <<cfg, playlists, err, ncalls, feats, idx, pass, snap>>
    /\ UNCHANGED remoteVars

\* lines 75-82: the next source playlist's tracks and their audio features
main_fetch ==
    /\ pc = "classify"
    /\ feats = <<>>
    /\ todo # <<>>
    /\ feats' = get_several_tracks_audio_features(
                    audio, get_tracks_from_playlist(remote, Head(todo)))
    /\ todo' = Tail(todo)
    /\ last' = Read
    /\ UNCHANGED <<cfg, playlists, pc, err, ncalls, idx, pass, snap>>
    /\ UNCHANGED remoteVars

\* faulty variant of AfterCategorize: the error is swallowed per track
AfterCategorizeCaught(raised) == "classify"

\* where main goes after a categorize_track call: nothing catches the error
AfterCategorize(raised) == IF raised THEN "failed" ELSE "classify"

\* lines 83-88: one categorize_track call
main_categorize ==
    /\ pc = "classify"
    /\ feats # <<>>
    /\ Categorize(Head(feats).id, Head(feats).tempo, Head(feats).energy)
    /\ feats' = Tail(feats)
    /\ pc' = AfterCategorize(err' = "ValueError")
    /\ UNCHANGED <<cfg, ncalls, todo, idx, pass, snap>>
    /\ UNCHANGED remoteVars

\* the classification loop is exhausted, line 91 is reached
main_classified ==
    /\ pc = "classify"
    /\ feats = <<>>
    /\ todo = <<>>
    /\ pc' = "reconcile"
    /\ idx' = 1
    /\ last' = Read
    /\ UNCHANGED <<cfg, playlists, err, ncalls, todo, feats, pass, snap>>
    /\ UNCHANGED remoteVars

\* lines 92-93: create or reuse the playlist of the current range
main_create ==
    /\ pc = "reconcile"
    /\ idx <= Len(playlists)
    /\ create_playlist(playlists[idx].name)
    /\ last' = [op |-> "create_playlist", name |-> playlists[idx].name,
                before |-> remote, ncalls |-> Len(calls)]
    /\ pc' = "add"
    /\ UNCHANGED <<cfg, err, ncalls, audio, todo, feats, idx, pass, snap>>

\* lines 94-95: add the range's tracks when it has any, then the next range
main_add ==
    /\ pc = "add"
    /\ IF playlists[idx].track_ids # {}
       THEN /\ add_tracks_to_playlist(playlists[idx].id, playlists[idx].track_ids)
            /\ last' = [op |-> "add_tracks_to_playlist",
                        playlist_id |-> playlists[idx].id,
                        track_ids |-> playlists[idx].track_ids,
                        before |-> remote, ncalls |-> Len(calls)]
       ELSE /\ last' = [op |-> "skip"]
            /\ UNCHANGED <<remote, calls>>
    /\ idx' = idx + 1
    /\ pc' = "reconcile"
    /\ UNCHANGED <<cfg, playlists, err, ncalls, audio, created, todo, feats, pass, snap>>

\* line 97: the sweep of empty playlists ends the run
main_prune ==
    /\ pc = "reconcile"
    /\ idx > Len(playlists)
    /\ unfollow_empty_playlists
    /\ last' = [op |-> "unfollow_empty_playlists", before |-> remote,
                ncalls |-> Len(calls)]
    /\ pc' = "done"
    /\ UNCHANGED <<cfg, playlists, err, ncalls, audio, created, todo, feats, idx, pass, snap>>

----------------------------------------------------------------------------
(* The world main() runs in: audio features per track and a library with   *)
(* two playlists of the user, one followed playlist of somebody else that  *)
(* bears a tempo playlist's name, and possibly a tempo playlist left by an *)
(* earlier run.                                                            *)

RawTempos == {98, 257, 258, 259, 600, 1199}   \* in halves: 49, 128.5, 129, 129.5, 300, 599.5
RawEnergies == {50, 90}

AudioChoices ==
    [tempo_x2 : RawTempos, energy : RawEnergies] \cup {NoFeatures}

MixItems == {<<>>, <<"t1">>, <<"t1", "e1">>, <<"t1", "t2">>}
OldiesItems == {<<"t2">>, <<"e1">>}
FollowedItems == {<<>>, <<"t1">>}
EarlierRun ==
    {<<>>} \cup
    {<<[id |-> "p4", name |-> DefaultName(65, 79), owner |-> CurrentUser, items |-> it]>> :
        it \in {<<>>, <<"t1">>, <<"e1", "t2">>}}

Libraries ==
    {<<[id |-> "p1", name |-> "mix", owner |-> CurrentUser, items |-> i1],
       [id |-> "p2", name |-> "oldies", owner |-> CurrentUser, items |-> i2],
       [id |-> "p3", name |-> DefaultName(50, 64), owner |-> "other", items |-> i3]>>
         \o earlier :
        i1 \in MixItems, i2 \in OldiesItems, i3 \in FollowedItems, earlier \in EarlierRun}

Init ==
    /\ cfg = MainConfig
    /\ playlists = <<>>
    /\ pc = "new"
    /\ err = "none"
    /\ last = NoCall
    /\ ncalls = 0
    /\ audio \in [Tracks -> AudioChoices]
    /\ remote \in Libraries
    /\ created = 0
    /\ calls = <<>>
    /\ todo = <<>>
    /\ feats = <<>>
    /\ idx = 0
    /\ pass = 1
    /\ snap = [remote |-> remote, calls |-> <<>>]

Next ==
    \/ post_init
    \/ main_list
    \/ main_fetch
    \/ main_categorize
    \/ main_classified
    \/ main_create
    \/ main_add
    \/ main_prune

Spec == Init /\ [][Next]_vars

----------------------------------------------------------------------------
(* The reconcile loop of main (lines 91-95) run a second time over the     *)
(* same membership sets, in place of the sweep.                            *)

rerun ==
    /\ pc = "reconcile"
    /\ idx > Len(playlists)
    /\ pass = 1
    /\ pass' = 2
    /\ idx' = 1
    /\ snap' = [remote |-> remote, calls |-> calls]
    /\ last' = Read
    /\ UNCHANGED <<cfg, playlists, pc, err, ncalls, todo, feats>>
    /\ UNCHANGED remoteVars

NextTwice ==
    \/ post_init
    \/ main_list
    \/ main_fetch
    \/ main_categorize
    \/ main_classified
    \/ main_create
    \/ main_add
    \/ rerun

SpecTwice == Init /\ [][NextTwice]_vars

----------------------------------------------------------------------------
(* Properties of the remote operations and of main *)

\* the remote calls issued by the operation just executed
Issued == SubSeq(calls, last.ncalls + 1, Len(calls))

\* the track ids (episodes left out) of a playlist of a library
TrackSet(lib, playlist_id) ==
    LET items == lib[CHOOSE i \in 1..Len(lib) : lib[i].id = playlist_id].items
    IN  {items[i] : i \in 1..Len(items)} \ Episodes

HasCall(log, op) == \E i \in 1..Len(log) : log[i].op = op

\* C6: a second run of the reconcile loop over the same membership sets
\* issues no creation and no add-items call and leaves the library as the
\* first run left it.
C6_SecondRunIssuesNothing ==
    pass = 2 => (calls = snap.calls /\ remote = snap.remote)

C6_Witness ==
    /\ pass = 2
    /\ pc = "reconcile"
    /\ idx > Len(playlists)
    /\ HasCall(calls, "user_playlist_create")
    /\ HasCall(calls, "playlist_add_items")

Added == last.op = "add_tracks_to_playlist"

\* C7: add_tracks_to_playlist sends exactly the requested ids that are not
\* in the playlist, sends nothing when there are none, and leaves the
\* playlist holding its previous tracks and the requested ids.
C7_AddsOnlyMissing ==
    Added =>
        LET present == TrackSet(last.before, last.playlist_id)
            missing == last.track_ids \ present
        IN  /\ missing = {} => Issued = <<>>
            /\ missing # {} =>
                  /\ Len(Issued) = 1
                  /\ Issued[1].op = "playlist_add_items"
                  /\ Issued[1].id = last.playlist_id
                  /\ Len(Issued[1].items) = Cardinality(missing)
                  /\ {Issued[1].items[i] : i \in 1..Len(Issued[1].items)} = missing
            /\ TrackSet(remote, last.playlist_id) = present \cup last.track_ids

C7_Witness ==
    /\ Added
    /\ last.track_ids \ TrackSet(last.before, last.playlist_id) # {}
    /\ last.track_ids \cap TrackSet(last.before, last.playlist_id) # {}

Swept == last.op = "unfollow_empty_playlists"

UnfollowedIds == {Issued[i].id : i \in 1..Len(Issued)}

\* the playlists of the library before the sweep that hold no item at all
EmptyBefore == {last.before[i].id : i \in {j \in 1..Len(last.before) :
                                               Len(last.before[j].items) = 0}}
OwnedBefore == {last.before[i].id : i \in {j \in 1..Len(last.before) :
                                               last.before[j].owner = "me"}}

\* C8 as stated: the sweep unfollows exactly the empty playlists the current
\* user owns, and none owned by somebody else.
C8_UnfollowsOwnedEmpty ==
    Swept =>
        /\ \A i \in 1..Len(Issued) : Issued[i].op = "user_playlist_unfollow"
        /\ UnfollowedIds = EmptyBefore \cap OwnedBefore

\* C8 amended: the sweep unfollows exactly the playlists of the user's
\* library, owned or followed, that hold no item; each once, created in this
\* run or not; a playlist with an item stays.
C8_UnfollowsAllEmpty ==
    Swept =>
        /\ \A i \in 1..Len(Issued) : Issued[i].op = "user_playlist_unfollow"
        /\ Len(Issued) = Cardinality(EmptyBefore)
        /\ UnfollowedIds = EmptyBefore
        /\ {remote[i].id : i \in 1..Len(remote)}
             = {last.before[i].id : i \in 1..Len(last.before)} \ EmptyBefore

C8_Witness ==
    /\ Swept
    /\ "p1" \in UnfollowedIds
    /\ "p3" \in UnfollowedIds
    /\ UnfollowedIds \ {"p1", "p2", "p3", "p4"} # {}
    /\ remote # <<>>

Raised == Categorized /\ err = "ValueError"

\* C10: every track is classified before the first remote mutation, and once
\* categorize_track has raised the run is over: no creation, add-items or
\* unfollow call is issued and the library stays as it was.
C10_RaiseIsFatal ==
    /\ [](calls # <<>> => (todo = <<>> /\ feats = <<>> /\ pc \notin {"new", "constructed", "classify"}))
    /\ [](Raised => [](pc = "failed" /\ calls = <<>> /\ remote = snap.remote))

C10_Witness ==
    /\ Raised
    /\ pc = "failed"
    /\ \E i \in 1..Len(playlists) : playlists[i].track_ids # {}
    /\ todo # <<>>

====
